---- MODULE Spec2Model ----
(***************************************************************************)
(* Bookshelf catalog (src/catalog.py): a Room holds an ordered list of     *)
(* Shelves; Catalog.organize_books_by_category distributes a pile of Books *)
(* over the shelves round-robin by category, sort_books_on_all_shelves     *)
(* sorts every shelf by title, and                                         *)
(* verify_constraint_same_category_same_shelf checks that no category is   *)
(* found on two shelves.                                                   *)
(*                                                                         *)
(* Python strings are modelled as sequences of code points, so that        *)
(* str.lower, str.casefold and the code-point-wise string comparison are   *)
(* computed rather than assumed.  Shelf names and book ids are only ever   *)
(* compared for equality and are kept as TLA+ strings.                     *)
(***************************************************************************)
EXTENDS Integers, Sequences, FiniteSets, TLC

\* Bounds of the model.
MaxPile == 3        \* longest pile handed to organize_books_by_category
MaxShelves == 2     \* most shelves a room gets
MaxManual == 1      \* direct Shelf.add_books calls between two organize calls

----------------------------------------------------------------------------
(* Strings *)

\* str.lower on one code point (Latin-1 letters that occur in the model).
LowerChar(c) == IF c >= 65 /\ c <= 90 THEN c + 32 ELSE c

\* str.lower
lower(s) == [i \in 1..Len(s) |-> LowerChar(s[i])]

\* str.casefold on one code point: as lower, but sharp s (223) folds to "ss".
CasefoldChar(c) ==
    IF c >= 65 /\ c <= 90 THEN <<c + 32>>
    ELSE IF c = 223 THEN <<115, 115>>
    ELSE <<c>>

\* str.casefold
RECURSIVE casefold(_)
casefold(s) ==
    IF s = <<>> THEN <<>> ELSE CasefoldChar(Head(s)) \o casefold(Tail(s))

\* Python's < on str: lexicographic by code point, a proper prefix is smaller.
RECURSIVE StrLess(_, _)
StrLess(s, t) ==
    IF t = <<>> THEN FALSE
    ELSE IF s = <<>> THEN TRUE
    ELSE IF Head(s) # Head(t) THEN Head(s) < Head(t)
    ELSE StrLess(Tail(s), Tail(t))

----------------------------------------------------------------------------
(* Data *)

\* Book(id, title, author, category, isbn=None) is a frozen dataclass: a value,
\* equal by all its fields. The books the callers of the model draw from are
\* four such values, written by their id; the author is "x" and the isbn None
\* in all of them, and no operation of the catalog reads either.
Books == {"b001", "b002", "b003", "b004"}

\* Book.title: "b", "A", "a", "aB"
title(b) ==
    CASE b = "b001" -> <<98>>
      [] b = "b002" -> <<65>>
      [] b = "b003" -> <<97>>
      [] b = "b004" -> <<97, 66>>

\* Book.category: "a", "A", "a", "B"
category(b) ==
    CASE b = "b001" -> <<97>>
      [] b = "b002" -> <<65>>
      [] b = "b003" -> <<97>>
      [] b = "b004" -> <<66>>

\* Shelf names; nothing in the code keeps the names of a room's shelves apart.
ShelfNames == {"Left", "Right"}

\* Shelf(name): books defaults to the empty list (default_factory: a list of
\* its own for every shelf). The shelves of a room are distinct Shelf objects.
Shelf(name) == [name |-> name, books |-> <<>>]

\* All sequences over S of length at most n.
SeqsUpTo(S, n) == UNION {[1..k -> S] : k \in 0..n}

\* Shelf.categories
categories_of(shelf) == {category(shelf.books[i]) : i \in 1..Len(shelf.books)}

----------------------------------------------------------------------------
(* Shelf *)

\* A slip in add_books: the list is assigned rather than extended.
add_books_assign(shelf, books) == [shelf EXCEPT !.books = books]

\* Shelf.add_books: self.books.extend(books)
add_books(shelf, books) == [shelf EXCEPT !.books = @ \o books]

\* list.sort(key=...) computes each key once and sorts stably; on the short
\* lists of the model it is an insertion sort that puts an element behind all
\* elements whose key is not greater. An entry is [key, val].
RECURSIVE InsertByKey(_, _)
InsertByKey(sorted, e) ==
    IF sorted = <<>> THEN <<e>>
    ELSE IF StrLess(e.key, Head(sorted).key) THEN <<e>> \o sorted
    ELSE <<Head(sorted)>> \o InsertByKey(Tail(sorted), e)

RECURSIVE StableSort(_)
StableSort(entries) ==
    IF entries = <<>> THEN <<>>
    ELSE LET before == StableSort(SubSeq(entries, 1, Len(entries) - 1))
         IN  InsertByKey(before, entries[Len(entries)])

\* A slip in sort_books_by_title: the key is the title as written, not casefolded.
sort_books_by_title_raw(shelf) ==
    LET entries == [i \in 1..Len(shelf.books) |->
                        [key |-> title(shelf.books[i]), val |-> shelf.books[i]]]
        sorted == StableSort(entries)
    IN  [shelf EXCEPT !.books = [i \in 1..Len(sorted) |-> sorted[i].val]]

\* A slip in sort_books_by_title: sorted(set(books)) drops the repeated books.
sort_books_by_title_dedup(shelf) ==
    LET entries == [i \in 1..Len(shelf.books) |->
                        [key |-> casefold(title(shelf.books[i])),
                         val |-> shelf.books[i]]]
        sorted == StableSort(entries)
        vals == [i \in 1..Len(sorted) |-> sorted[i].val]
        firsts == {i \in 1..Len(vals) : \A j \in 1..(i - 1) : vals[j] # vals[i]}
    IN  [shelf EXCEPT !.books =
            [k \in 1..Cardinality(firsts) |->
                vals[CHOOSE i \in firsts :
                        Cardinality({j \in firsts : j <= i}) = k]]]

\* Shelf.sort_books_by_title: self.books.sort(key=lambda b: b.title.casefold())
sort_books_by_title(shelf) ==
    LET entries == [i \in 1..Len(shelf.books) |->
                        [key |-> casefold(title(shelf.books[i])),
                         val |-> shelf.books[i]]]
        sorted == StableSort(entries)
    IN  [shelf EXCEPT !.books = [i \in 1..Len(sorted) |-> sorted[i].val]]

----------------------------------------------------------------------------
(* Catalog.organize_books_by_category *)

\* A slip in the grouping: insert(0, b) for append(b).
RECURSIVE GroupByCategory_prepend(_)
GroupByCategory_prepend(pile) ==
    IF pile = <<>> THEN [keys |-> <<>>, lists |-> <<>>]
    ELSE LET by_cat == GroupByCategory_prepend(SubSeq(pile, 1, Len(pile) - 1))
             b == pile[Len(pile)]
         IN  IF category(b) \in DOMAIN by_cat.lists
             THEN [keys |-> by_cat.keys,
                   lists |-> [by_cat.lists EXCEPT ![category(b)] = <<b>> \o @]]
             ELSE [keys |-> Append(by_cat.keys, category(b)),
                   lists |-> by_cat.lists @@ (category(b) :> <<b>>)]

\* by_cat = {}; for b in pile: by_cat.setdefault(b.category, []).append(b).
\* keys is the dict's key order (first appearance), lists its values.
RECURSIVE GroupByCategory(_)
GroupByCategory(pile) ==
    IF pile = <<>> THEN [keys |-> <<>>, lists |-> <<>>]
    ELSE LET by_cat == GroupByCategory(SubSeq(pile, 1, Len(pile) - 1))
             b == pile[Len(pile)]
         IN  IF category(b) \in DOMAIN by_cat.lists
             THEN [keys |-> by_cat.keys,
                   lists |-> [by_cat.lists EXCEPT ![category(b)] = Append(@, b)]]
             ELSE [keys |-> Append(by_cat.keys, category(b)),
                   lists |-> by_cat.lists @@ (category(b) :> <<b>>)]

\* A slip in the category order: sorted(by_cat.keys()) without key=str.lower.
SortedCategories_raw(keys) ==
    LET entries == [i \in 1..Len(keys) |-> [key |-> keys[i], val |-> keys[i]]]
        sorted == StableSort(entries)
    IN  [i \in 1..Len(sorted) |-> sorted[i].val]

\* categories = sorted(by_cat.keys(), key=str.lower)
SortedCategories(keys) ==
    LET entries == [i \in 1..Len(keys) |-> [key |-> lower(keys[i]), val |-> keys[i]]]
        sorted == StableSort(entries)
    IN  [i \in 1..Len(sorted) |-> sorted[i].val]

\* A slip in the clearing: only the first shelf is cleared.
ClearShelves_first(shelves) ==
    [i \in 1..Len(shelves) |->
        IF i = 1 THEN [shelves[i] EXCEPT !.books = <<>>] ELSE shelves[i]]

\* A slip in the clearing: the loop is missing and the placement is additive.
ClearShelves_none(shelves) == shelves

\* for sh in self.room.shelves: sh.books.clear()
ClearShelves(shelves) == [i \in 1..Len(shelves) |-> [shelves[i] EXCEPT !.books = <<>>]]

\* The shelf (1-based) of the category at 1-based position k: shelves[i % n]
\* with i = k - 1.
TargetShelf(k, n) == ((k - 1) % n) + 1

\* for i, cat in enumerate(categories): shelves[i % n].add_books(by_cat[cat]),
\* for the first k categories.
RECURSIVE Distribute(_, _, _, _)
Distribute(shelves, categories, lists, k) ==
    IF k = 0 THEN shelves
    ELSE LET before == Distribute(shelves, categories, lists, k - 1)
         IN  [before EXCEPT ![TargetShelf(k, Len(shelves))] =
                                add_books(@, lists[categories[k]])]

\* A slip in the guard: a room with a single shelf is refused as well.
NoShelves_lt2(shelves) == Len(shelves) < 2

\* if not self.room.shelves: raise ValueError
NoShelves(shelves) == Len(shelves) = 0

\* The whole call: what it raises, the shelves it leaves and the category
\* order it walked.
organize_books_by_category(shelves, pile) ==
    IF NoShelves(shelves)
    THEN [raised |-> "ValueError", shelves |-> shelves, categories |-> <<>>]
    ELSE LET by_cat == GroupByCategory(pile)
             categories == SortedCategories(by_cat.keys)
             cleared == ClearShelves(shelves)
         IN  [raised |-> "none",
              shelves |-> Distribute(cleared, categories, by_cat.lists,
                                     Len(categories)),
              categories |-> categories]

\* Catalog.sort_books_on_all_shelves
sort_books_on_all_shelves(shelves) ==
    [i \in 1..Len(shelves) |-> sort_books_by_title(shelves[i])]

----------------------------------------------------------------------------
(* Catalog.verify_constraint_same_category_same_shelf *)

\* A raised AssertionError: the category and the two shelf names of its message.
AssertionError(cat, first, second) ==
    [kind |-> "AssertionError", category |-> cat, first |-> first, second |-> second]

\* The walk from shelf j on, with the dict seen (category -> shelf name) built
\* so far: the set of AssertionErrors it can raise, empty when it returns.
\* shelf.categories() is a set, iterated in no fixed order, so any category
\* of the shelf that is bound to another name can be the one that raises;
\* without a raise every category of the shelf is bound to the shelf's name.
RECURSIVE VerifyWalk(_, _, _)
VerifyWalk(shelves, j, seen) ==
    IF j > Len(shelves) THEN {}
    ELSE LET shelf == shelves[j]
             cats == categories_of(shelf)
             clash == {cat \in cats : cat \in DOMAIN seen /\ seen[cat] # shelf.name}
         IN  IF clash # {}
             THEN {AssertionError(cat, seen[cat], shelf.name) : cat \in clash}
             ELSE VerifyWalk(shelves, j + 1,
                             [cat \in DOMAIN seen \cup cats |->
                                 IF cat \in cats THEN shelf.name ELSE seen[cat]])

\* seen: Dict[str, str] = {}; then the walk over all shelves.
verify_constraint_same_category_same_shelf(shelves) ==
    VerifyWalk(shelves, 1, <<>>)

NoError == [kind |-> "none"]
ValueError == [kind |-> "ValueError"]

----------------------------------------------------------------------------
(* State *)

VARIABLES
    shelves,     \* room.shelves: the sequence of [name, books]
    pile,        \* the argument of the latest organize_books_by_category call
    categories,  \* the category order that call walked
    op,          \* the latest call
    err,         \* what the latest call raised (NoError: it returned)
    organized,   \* an organize_books_by_category call has returned normally
    manual,      \* the direct add_books calls since then: <<[shelf, books]>>
    refilled     \* the latest call was an organize that found books on a shelf

vars == <<shelves, pile, categories, op, err, organized, manual, refilled>>

\* Room(owner): shelves defaults to the empty list; Catalog(room).
Init ==
    /\ shelves = <<>>
    /\ pile = <<>>
    /\ categories = <<>>
    /\ op = "init"
    /\ err = NoError
    /\ organized = FALSE
    /\ manual = <<>>
    /\ refilled = FALSE

\* Room.add_shelf(Shelf(name))
AddShelf(name) ==
    /\ Len(shelves) < MaxShelves
    /\ shelves' = Append(shelves, Shelf(name))
    /\ op' = "add_shelf"
    /\ err' = NoError
    /\ refilled' = FALSE
    /\ UNCHANGED <<pile, categories, organized, manual>>

\* room.shelves[i].add_books(books), called by hand rather than by the catalog
AddBooks(i, books) ==
    /\ i \in 1..Len(shelves)
    /\ Len(manual) < MaxManual
    /\ shelves' = [shelves EXCEPT ![i] = add_books(@, books)]
    /\ manual' = Append(manual, [shelf |-> i, books |-> books])
    /\ op' = "add_books"
    /\ err' = NoError
    /\ refilled' = FALSE
    /\ UNCHANGED <<pile, categories, organized>>

\* catalog.organize_books_by_category(p)
Organize(p) ==
    \E r \in {organize_books_by_category(shelves, p)} :
        /\ shelves' = r.shelves
        /\ pile' = p
        /\ categories' = r.categories
        /\ op' = "organize_books_by_category"
        /\ err' = IF r.raised = "ValueError" THEN ValueError ELSE NoError
        /\ organized' = IF r.raised = "none" THEN TRUE ELSE organized
        /\ manual' = IF r.raised = "none" THEN <<>> ELSE manual
        /\ refilled' = \E i \in 1..Len(shelves) : shelves[i].books # <<>>

\* catalog.sort_books_on_all_shelves()
SortAll ==
    /\ shelves' = sort_books_on_all_shelves(shelves)
    /\ op' = "sort_books_on_all_shelves"
    /\ err' = NoError
    /\ refilled' = FALSE
    /\ UNCHANGED <<pile, categories, organized, manual>>

\* catalog.verify_constraint_same_category_same_shelf()
Verify ==
    LET raises == verify_constraint_same_category_same_shelf(shelves)
    IN  /\ err' \in (IF raises = {} THEN {NoError} ELSE raises)
        /\ op' = "verify_constraint_same_category_same_shelf"
        /\ refilled' = FALSE
        /\ UNCHANGED <<shelves, pile, categories, organized, manual>>

Next ==
    \/ \E name \in ShelfNames : AddShelf(name)
    \/ \E i \in 1..MaxShelves, books \in SeqsUpTo(Books, 1) : AddBooks(i, books)
    \/ \E p \in SeqsUpTo(Books, MaxPile) : Organize(p)
    \/ SortAll
    \/ Verify

Spec == Init /\ [][Next]_vars

----------------------------------------------------------------------------
(* Properties *)

ORGANIZE == "organize_books_by_category"
SORT == "sort_books_on_all_shelves"
VERIFY == "verify_constraint_same_category_same_shelf"

\* The latest call was an organize that returned normally.
AfterOrganize == op = ORGANIZE /\ err = NoError

\* How often book b occurs in the sequence seq.
Count(b, seq) == Cardinality({i \in 1..Len(seq) : seq[i] = b})

\* How often book b occurs on all the shelves of sh together.
CountOnShelves(b, sh) ==
    Cardinality({<<i, j>> \in (1..Len(sh)) \X (1..(MaxPile + MaxManual)) :
                    j <= Len(sh[i].books) /\ sh[i].books[j] = b})

\* The distinct categories of a sequence of books.
Tags(seq) == {category(seq[i]) : i \in 1..Len(seq)}

\* The positions of the shelves of sh that hold a book of category t.
ShelvesWith(t, sh) == {i \in 1..Len(sh) : t \in categories_of(sh[i])}

\* The books of category t in seq, in the order of seq.
GroupOf(t, seq) ==
    LET InGroup(b) == category(b) = t IN SelectSeq(seq, InGroup)

\* s is not greater than t when letter case is ignored, by the given folding.
LowerLeq(s, t) == ~StrLess(lower(t), lower(s))
FoldLeq(s, t) == ~StrLess(casefold(t), casefold(s))

\* C1: after organize the shelves together hold every book exactly as often
\* as the pile does: nothing is lost, nothing is duplicated, and a book that
\* is in the pile several times is on the shelves as many times.
C1_NoLossNoDuplication ==
    AfterOrganize =>
        \A b \in Books : CountOnShelves(b, shelves) = Count(b, pile)

\* C1 witness: a pile with a repeated book and a second category has been
\* placed on two shelves.
C1_Witness ==
    /\ AfterOrganize
    /\ Len(shelves) = 2
    /\ Len(pile) = 3
    /\ \E b \in Books : Count(b, pile) = 2
    /\ Cardinality(Tags(pile)) = 2

\* C2: after organize every category of the pile is on exactly one shelf, and
\* verify_constraint_same_category_same_shelf called now returns without an
\* AssertionError.
C2_OneCategoryOneShelf ==
    AfterOrganize =>
        /\ \A t \in Tags(pile) : Cardinality(ShelvesWith(t, shelves)) = 1
        /\ verify_constraint_same_category_same_shelf(shelves) = {}

\* C2 witness: three categories placed on two shelves with different names,
\* by an organize that found books on the shelves.
C2_Witness ==
    /\ AfterOrganize
    /\ refilled
    /\ Len(shelves) = 2
    /\ shelves[1].name # shelves[2].name
    /\ Cardinality(Tags(pile)) = 3

\* C3: the category order walked by organize lists the distinct categories
\* of the pile once each, ascending when letter case is ignored; all books of
\* the category at 0-based position i are on the shelf at 0-based position
\* i mod n and nowhere else; with k < n categories the shelves at the
\* 0-based positions k .. n-1 are empty.
C3_RoundRobin ==
    AfterOrganize =>
        LET n == Len(shelves)
            k == Len(categories)
        IN  /\ k = Cardinality(Tags(pile))
            /\ {categories[i] : i \in 1..k} = Tags(pile)
            /\ \A i, j \in 1..k : i < j => LowerLeq(categories[i], categories[j])
            /\ \A i \in 1..k :
                  /\ ShelvesWith(categories[i], shelves) = {((i - 1) % n) + 1}
                  /\ Len(GroupOf(categories[i], shelves[((i - 1) % n) + 1].books))
                        = Len(GroupOf(categories[i], pile))
            /\ \A j \in (k + 1)..n : shelves[j].books = <<>>

\* C3 witness: the pile has the categories "B", "a", "A" in this order; they
\* are walked as "a", "A", "B" and the third wraps around to the first of two
\* shelves.
C3_Witness ==
    /\ AfterOrganize
    /\ Len(shelves) = 2
    /\ pile = <<"b004", "b001", "b002">>

\* C3 second case: fewer categories than shelves leaves the last shelf empty.
C3_WitnessEmpty ==
    /\ AfterOrganize
    /\ refilled
    /\ Len(shelves) = 2
    /\ Cardinality(Tags(pile)) = 1
    /\ shelves[2].books = <<>>

\* The shelves of sh as they are created: same names, no books.
Fresh(sh) == [i \in 1..Len(sh) |-> Shelf(sh[i].name)]

\* C4: whatever the shelves held when organize was called, they hold
\* afterwards what organize leaves on shelves of the same names that were
\* empty: the result depends on the pile and the shelf list alone, and a
\* second organize of the same pile changes nothing.
C4_FromScratch ==
    AfterOrganize =>
        shelves = organize_books_by_category(Fresh(shelves), pile).shelves

\* C4 witness: organize has found books on the shelves and has placed a pile
\* that leaves a shelf empty.
C4_Witness ==
    /\ AfterOrganize
    /\ refilled
    /\ Len(shelves) = 2
    /\ pile # <<>>
    /\ \E i \in 1..2 : shelves[i].books = <<>>

\* C5: organize on a room without shelves raises ValueError (the spec's
\* ConfigurationError) for every pile and places nothing; organize on a room
\* with at least one shelf never raises it.
C5_NoShelvesError ==
    [][op' = ORGANIZE =>
          IF Len(shelves) = 0
          THEN err' = ValueError /\ shelves' = <<>>
          ELSE err' = NoError /\ Len(shelves') = Len(shelves)]_vars

\* C5 witness: organize of a non-empty pile was refused.
C5_Witness == op = ORGANIZE /\ err = ValueError /\ pile # <<>> /\ shelves = <<>>

\* C5 second case: organize of the empty pile was refused.
C5_WitnessEmptyPile == op = ORGANIZE /\ err = ValueError /\ pile = <<>>

\* C6: after organize has placed category t on shelf A, one book of category
\* t added by hand to a shelf B at another position makes
\* verify_constraint_same_category_same_shelf raise an AssertionError (the
\* spec's InvariantViolation) that names t and the names of A and B.
C6_ManualAddDetected ==
    (op = VERIFY /\ organized /\ Len(manual) = 1 /\ Len(manual[1].books) = 1) =>
        LET B == manual[1].shelf
            t == category(manual[1].books[1])
        IN  \A A \in ShelvesWith(t, shelves) \ {B} :
                t \in Tags(pile) =>
                    /\ err.kind = "AssertionError"
                    /\ err.category = t
                    /\ {err.first, err.second} = {shelves[A].name, shelves[B].name}

\* The books of seq whose title is title t when letter case is ignored.
SameTitle(t, seq) ==
    LET Same(b) == casefold(title(b)) = casefold(t) IN SelectSeq(seq, Same)

\* C7: after sort_books_on_all_shelves the titles on every shelf are
\* non-descending when letter case is ignored, the books whose titles are
\* equal that way are in the order they had before the call, and an empty
\* shelf is still empty; the room has the shelves it had.
C7_SortedStable ==
    [][op' = SORT =>
          /\ Len(shelves') = Len(shelves)
          /\ \A i \in 1..Len(shelves) :
                LET old == shelves[i].books
                    new == shelves'[i].books
                IN  /\ shelves'[i].name = shelves[i].name
                    /\ Len(new) = Len(old)
                    /\ \A j, h \in 1..Len(new) :
                          j < h => FoldLeq(title(new[j]), title(new[h]))
                    /\ \A b \in Books :
                          SameTitle(title(b), new) = SameTitle(title(b), old)
                    /\ old = <<>> => new = <<>>]_vars

\* C7 witness: the first shelf got "b", "a" from organize and "A" by hand, and
\* is sorted to "a", "A", "b" with "a" still before "A"; the second shelf was
\* empty and is empty.
C7_Witness ==
    /\ op = SORT
    /\ Len(shelves) = 2
    /\ pile = <<"b001", "b003">>
    /\ manual = <<[shelf |-> 1, books |-> <<"b002">>]>>
    /\ shelves[1].books = <<"b003", "b002", "b001">>
    /\ shelves[2].books = <<>>

\* No category is on two shelves of sh.
OneShelfPerCategory(sh) ==
    \A t \in UNION {categories_of(sh[i]) : i \in 1..Len(sh)} :
        Cardinality(ShelvesWith(t, sh)) = 1

\* C8: from a successful organize on, as long as no books are added by hand,
\* every category is on exactly one shelf and
\* verify_constraint_same_category_same_shelf does not raise; sorting and
\* verifying leave every shelf with the books it had, each as often as before.
C8_InvariantKept ==
    [][/\ (organized' /\ manual' = <<>>) =>
              /\ OneShelfPerCategory(shelves')
              /\ \A t \in Tags(pile') : Cardinality(ShelvesWith(t, shelves')) = 1
              /\ verify_constraint_same_category_same_shelf(shelves') = {}
              /\ err'.kind # "AssertionError"
       /\ op' \in {SORT, VERIFY} =>
              /\ Len(shelves') = Len(shelves)
              /\ \A i \in 1..Len(shelves), b \in Books :
                    Count(b, shelves'[i].books) = Count(b, shelves[i].books)]_vars

\* C8 witness: verify has returned normally on two differently named shelves
\* that were organized with three categories and then sorted into another
\* order than organize left.
C8_Witness ==
    /\ op = VERIFY
    /\ err = NoError
    /\ organized
    /\ manual = <<>>
    /\ Len(shelves) = 2
    /\ shelves[1].name # shelves[2].name
    /\ Cardinality(Tags(pile)) = 3
    /\ shelves # organize_books_by_category(Fresh(shelves), pile).shelves

\* The 0-based rank of category t among the categories of seq: the categories
\* that are smaller when letter case is ignored come first, and of those that
\* are equal that way, the ones that appear earlier in seq.
FirstAt(t, seq) == CHOOSE i \in 1..Len(seq) :
                       category(seq[i]) = t /\ \A j \in 1..(i - 1) : category(seq[j]) # t
Rank(t, seq) ==
    Cardinality({d \in Tags(seq) :
                    \/ StrLess(lower(d), lower(t))
                    \/ lower(d) = lower(t) /\ FirstAt(d, seq) < FirstAt(t, seq)})
TagAt(r, seq) == CHOOSE t \in Tags(seq) : Rank(t, seq) = r

\* The groups of the categories of rank r, r + n, r + 2n, ... of seq, one
\* after the other.
RECURSIVE GroupsFrom(_, _, _)
GroupsFrom(r, n, seq) ==
    IF r >= Cardinality(Tags(seq)) THEN <<>>
    ELSE GroupOf(TagAt(r, seq), seq) \o GroupsFrom(r + n, n, seq)

\* C9: right after organize every shelf holds the groups of the categories
\* assigned to it one after the other, in the order in which the categories
\* were walked, and in each group the books in the order they have in the pile.
C9_GroupOrder ==
    AfterOrganize =>
        /\ categories = [i \in 1..Cardinality(Tags(pile)) |-> TagAt(i - 1, pile)]
        /\ \A i \in 1..Len(shelves) :
              shelves[i].books = GroupsFrom(i - 1, Len(shelves), pile)

\* C9 witness: one shelf with the group of "a" (two books, in pile order)
\* followed by the group of "A".
C9_Witness ==
    /\ AfterOrganize
    /\ Len(shelves) = 1
    /\ pile = <<"b003", "b002", "b001">>
    /\ shelves[1].books = <<"b003", "b001", "b002">>

\* C9 second case: two shelves, the first with the groups of the first and
\* the third category.
C9_WitnessWrap ==
    /\ AfterOrganize
    /\ Len(shelves) = 2
    /\ pile = <<"b004", "b002", "b001">>
    /\ shelves[1].books = <<"b002", "b004">>
    /\ shelves[2].books = <<"b001">>

\* The pile seq in the order given by the permutation pi of its positions.
Reordered(seq, pi) == [i \in 1..Len(seq) |-> seq[pi[i]]]

\* C10: the shelf of every category depends on the set of categories and the
\* number of shelves alone: the same books in any other order put every
\* category on the shelf at the same position.
C10_OrderIndependent ==
    AfterOrganize =>
        \A pi \in Permutations(1..Len(pile)) :
            LET other == organize_books_by_category(Fresh(shelves),
                                                    Reordered(pile, pi)).shelves
            IN  \A t \in Tags(pile) : ShelvesWith(t, other) = ShelvesWith(t, shelves)

\* No two categories of seq differ in letter case only.
CaseDistinct(seq) ==
    \A c, d \in Tags(seq) : lower(c) = lower(d) => c = d

\* C10, for piles whose categories differ in more than letter case: the shelf
\* of every category is the same for every order of the pile.
C10_OrderIndependentCaseDistinct ==
    (AfterOrganize /\ CaseDistinct(pile)) =>
        \A pi \in Permutations(1..Len(pile)) :
            LET other == organize_books_by_category(Fresh(shelves),
                                                    Reordered(pile, pi)).shelves
            IN  \A t \in Tags(pile) : ShelvesWith(t, other) = ShelvesWith(t, shelves)

\* C6, for rooms whose shelves have different names.
C6_ManualAddDetectedDistinctNames ==
    (\A i, j \in 1..Len(shelves) : shelves[i].name = shelves[j].name => i = j) =>
        C6_ManualAddDetected

====
